---- MODULE Spec2Model ----
(***************************************************************************)
(* A model of GoogleCloudStorageHook (airflow/contrib/hooks/gcs_hook.py):  *)
(* the six operations of the hook, the remote object store they talk to    *)
(* and the local files that upload reads and download writes.              *)
(*                                                                         *)
(* Python values are modelled as follows.  A dict is a TLA+ function whose *)
(* DOMAIN is the set of its keys, so  'k' in d  is  "k" \in DOMAIN d  and   *)
(* the empty dict is << >>.  None is the string "None", True and False as  *)
(* return values are the strings "True" and "False".  An HTTP status is    *)
(* the string the client library puts in ex.resp['status'].                *)
(***************************************************************************)
EXTENDS Integers, Sequences, FiniteSets, TLC

VARIABLES
    store,      \* the remote store: (bucket, object) -> content of the live object
    files,      \* the local file system: path -> content
    written,    \* history: the content the last successful upload put at a key,
                \* None once the live object was deleted or before any upload
    last,       \* history: the last completed call, its remote response and outcome
    pc,         \* list: where the running call of list stands
    query,      \* list: the arguments of the running call
    ids,        \* list: the local  ids
    pageToken,  \* list: the local  pageToken
    requests,   \* history: the page requests issued by the running call
    responses,  \* history: the page responses received by the running call
    result      \* list: what the call returned

vars == <<store, files, written, last, pc, query, ids, pageToken,
          requests, responses, result>>
storeVars == <<store, files, written, last>>
listVars == <<pc, query, ids, pageToken, requests, responses, result>>

---------------------------------------------------------------------------
(* Bounds of the model. *)

\* Wall-clock hours range over 0..MaxHour.
MaxHour == 1
\* The service hands out at most MaxPages pages that carry a cursor.
MaxPages == 2
\* A listing holds at most MaxItems entries over all its pages.
MaxItems == 3

---------------------------------------------------------------------------
(* Values. *)

Buckets == {"b1", "b2"}
Objects == {"o1", "o2"}
Keys == Buckets \X Objects
Contents == {"c1", "c2"}
Paths == {"f1", "f2"}
Generations == {"g1"}
Absent == "absent"
None == "None"
PyTrue == "True"
PyFalse == "False"
NoFile == "False"       \* download's default  filename=False

\* Failure statuses other than 404.
ErrorStatuses == {"403", "500"}

Hours == 0 .. MaxHour
\* Offsets from UTC, in hours east.
Offsets == {0, 1}
\* The text of an `updated` field: ISO-8601 with a UTC offset.
UpdatedStrings == [hh : Hours, zz : Offsets]
\* A datetime: naive (no tzinfo) or aware.
Datetimes == [wall : Hours] \cup [wall : Hours, tzinfo : Offsets]

Return(v) == [kind |-> "return", value |-> v]
Raise(s) == [kind |-> "raise", value |-> s]

---------------------------------------------------------------------------
(* The client library: request.execute() raises errors.HttpError for every *)
(* response that is not a success.                                         *)

HttpError(response) == response.status \notin {"200", "204"}

Failure(s) == [status |-> s, body |-> << >>]
NoContent == [status |-> "204", body |-> << >>]
Failures == {Failure(s) : s \in ErrorStatuses}

---------------------------------------------------------------------------
(* The remote service, as the hook sees it: each call answers with one of  *)
(* the responses below.  Any call may fail with a status other than 404.   *)

\* The metadata of a live object; the service may leave `updated` out.
Metadata(object) ==
    {[name |-> object]} \cup
    {[name |-> object, updated |-> u] : u \in UpdatedStrings}

\* service.objects().get(bucket, object).execute()
objects_get(bucket, object) ==
    Failures \cup
    (IF store[<<bucket, object>>] # Absent
     THEN {[status |-> "200", body |-> m] : m \in Metadata(object)}
     ELSE {Failure("404")})

\* service.objects().get_media(bucket, object).execute(): the payload comes
\* back as bytes or as text, as the service and the client library decide.
objects_get_media(bucket, object) ==
    Failures \cup
    (IF store[<<bucket, object>>] # Absent
     THEN {[status |-> "200",
            body |-> [type |-> t, data |-> store[<<bucket, object>>]]] :
           t \in {"bytes", "str"}}
     ELSE {Failure("404")})

\* service.objects().insert(bucket, name, media_body).execute(): the object
\* of that name is created or replaced.  Each answer comes with the store
\* the call leaves.
objects_insert(request) ==
    {[response |-> f, store |-> store] : f \in Failures \cup {Failure("404")}} \cup
    {[response |-> [status |-> "200", body |-> [name |-> request.name]],
      store |-> [store EXCEPT ![<<request.bucket, request.name>>] =
                                  request.media_body.data]]}

\* service.objects().delete(bucket, object, generation).execute().  Without
\* a generation the live object goes.  With one, that generation goes: it is
\* the live one, an archived one (the live object stays) or none at all.
\* `live` tells whether the call removed the live object.
objects_delete(request) ==
    LET key == <<request.bucket, request.object>>
        gone == [response |-> NoContent,
                 store |-> [store EXCEPT ![key] = Absent], live |-> TRUE]
        archived == [response |-> NoContent, store |-> store, live |-> FALSE]
        missing == [response |-> Failure("404"), store |-> store, live |-> FALSE]
    IN  {[response |-> f, store |-> store, live |-> FALSE] : f \in Failures} \cup
        (IF request.generation = None
         THEN IF store[key] # Absent THEN {gone} ELSE {missing}
         ELSE IF store[key] # Absent THEN {gone, archived, missing}
                                     ELSE {archived, missing})

---------------------------------------------------------------------------
(* datetime and dateutil. *)

\* dateutil.tz.tzutc()
tzutc == 0

\* ts.replace(tzinfo=tz)
replace_tzinfo(ts, tz) == [wall |-> ts.wall, tzinfo |-> tz]

\* dateutil.parser.parse(text) of an ISO-8601 text with an offset
parse(text) == [wall |-> text.hh, tzinfo |-> text.zz]

\* The instant of an aware datetime, in hours.
utc(dt) == dt.wall - dt.tzinfo

\* Fault variant of datetime_gt: an inclusive comparison.
datetime_ge(a, b) == utc(a) >= utc(b)

\* a > b on aware datetimes compares their instants.
datetime_gt(a, b) == utc(a) > utc(b)

---------------------------------------------------------------------------
(* The hook's methods, as functions of the response of their remote call.  *)

\* Fault variant of exists: the status is compared with the number 404,
\* which no status string equals, so a 404 is raised like the rest.
exists_status_as_number(response) ==
    IF ~HttpError(response) THEN Return(PyTrue) ELSE Raise(response.status)

\* exists: lines 105-114
exists(response) ==
    IF ~HttpError(response) THEN Return(PyTrue)
    ELSE IF response.status = "404" THEN Return(PyFalse)
    ELSE Raise(response.status)

\* Fault variant of is_updated_after: every HttpError is swallowed.
is_updated_after_swallow(response, ts) ==
    IF ~HttpError(response)
    THEN IF "updated" \in DOMAIN response.body
         THEN LET ts1 == IF "tzinfo" \notin DOMAIN ts
                         THEN replace_tzinfo(ts, tzutc) ELSE ts
                  updated == parse(response.body.updated)
              IN  IF utc(updated) > utc(ts1) THEN Return(PyTrue)
                  ELSE Return(PyFalse)
         ELSE Return(PyFalse)
    ELSE Return(PyFalse)

\* is_updated_after: lines 130-154
is_updated_after(response, ts) ==
    IF ~HttpError(response)
    THEN IF "updated" \in DOMAIN response.body
         THEN LET ts1 == IF "tzinfo" \notin DOMAIN ts
                         THEN replace_tzinfo(ts, tzutc) ELSE ts
                  updated == parse(response.body.updated)
              IN  IF datetime_gt(updated, ts1) THEN Return(PyTrue)
                  ELSE Return(PyFalse)
         ELSE Return(PyFalse)
    ELSE IF response.status # "404" THEN Raise(response.status)
    ELSE Return(PyFalse)

\* delete: the request of lines 171-174
delete_request(bucket, object, generation) ==
    [bucket |-> bucket, object |-> object, generation |-> generation]

\* Fault variant of delete: every HttpError is answered with False.
delete_swallow(response) ==
    IF ~HttpError(response) THEN Return(PyTrue) ELSE Return(PyFalse)

\* Fault variant of delete: a 404 is answered with True.
delete_true_on_404(response) ==
    IF ~HttpError(response) THEN Return(PyTrue)
    ELSE IF response.status = "404" THEN Return(PyTrue)
    ELSE Raise(response.status)

\* delete: lines 170-179
delete(response) ==
    IF ~HttpError(response) THEN Return(PyTrue)
    ELSE IF response.status = "404" THEN Return(PyFalse)
    ELSE Raise(response.status)

\* MediaFileUpload(filename, mime_type): the file's content and its type
MediaFileUpload(filename, mime_type) ==
    [data |-> files[filename], mimetype |-> mime_type]

\* upload: the request of lines 87-90
upload_request(bucket, object, filename, mime_type) ==
    [bucket |-> bucket, name |-> object,
     media_body |-> MediaFileUpload(filename, mime_type)]

\* upload: lines 88-91; nothing is caught and nothing is returned
upload(response) ==
    IF ~HttpError(response) THEN Return(None) ELSE Raise(response.status)

\* download: the mode of line 66
write_argument(downloaded_file_bytes) ==
    IF downloaded_file_bytes.type = "bytes" THEN "wb" ELSE "w"

\* Fault variant of download: the content is returned only when it was not
\* written to a file.
download_returns_unless_written(response, filename) ==
    IF HttpError(response)
    THEN [outcome |-> Raise(response.status), files |-> files, mode |-> None]
    ELSE IF filename # NoFile
         THEN [outcome |-> Return(None),
               files |-> [files EXCEPT ![filename] = response.body.data],
               mode |-> write_argument(response.body)]
         ELSE [outcome |-> Return(response.body.data), files |-> files, mode |-> None]

\* download: lines 59-70; nothing is caught.  The outcome, and the files
\* the call leaves.
download(response, filename) ==
    IF HttpError(response)
    THEN [outcome |-> Raise(response.status), files |-> files, mode |-> None]
    ELSE LET downloaded_file_bytes == response.body
         IN  IF filename # NoFile
             THEN [outcome |-> Return(downloaded_file_bytes.data),
                   files |-> [files EXCEPT ![filename] = downloaded_file_bytes.data],
                   mode |-> write_argument(downloaded_file_bytes)]
             ELSE [outcome |-> Return(downloaded_file_bytes.data),
                   files |-> files, mode |-> None]

---------------------------------------------------------------------------
(* The calls of exists, is_updated_after, delete, upload and download.     *)
(* Each is one synchronous call: the request, the response, the outcome.   *)

MimeTypes == {"application/octet-stream"}

\* History: what the call before this one did to the object this call names:
\* "delete" (it removed the live object), "upload" (it created the object),
\* "overwrite" (it replaced other content) or "other".
Follows(bucket, object) ==
    IF last.op \in {"delete", "upload"} /\ last.bucket = bucket /\ last.object = object
    THEN IF last.op = "delete"
         THEN IF last.live THEN "delete" ELSE "other"
         ELSE IF HttpError(last.response) THEN "other"
              ELSE IF last.before \in Contents \ {last.content}
                   THEN "overwrite" ELSE "upload"
    ELSE "other"

Exists(bucket, object) ==
    \E response \in objects_get(bucket, object) :
        /\ last' = [op |-> "exists", bucket |-> bucket, object |-> object,
                    follows |-> Follows(bucket, object),
                    response |-> response, outcome |-> exists(response)]
        /\ UNCHANGED <<store, files, written>>
        /\ UNCHANGED listVars

IsUpdatedAfter(bucket, object, ts) ==
    \E response \in objects_get(bucket, object) :
        /\ last' = [op |-> "is_updated_after", bucket |-> bucket,
                    object |-> object, ts |-> ts, response |-> response,
                    outcome |-> is_updated_after(response, ts)]
        /\ UNCHANGED <<store, files, written>>
        /\ UNCHANGED listVars

Delete(bucket, object, generation) ==
    \E answer \in objects_delete(delete_request(bucket, object, generation)) :
        /\ store' = answer.store
        /\ written' = IF answer.live
                      THEN [written EXCEPT ![<<bucket, object>>] = None]
                      ELSE written
        /\ last' = [op |-> "delete", bucket |-> bucket, object |-> object,
                    generation |-> generation, existed |-> store[<<bucket, object>>] # Absent,
                    response |-> answer.response, live |-> answer.live,
                    outcome |-> delete(answer.response)]
        /\ UNCHANGED files
        /\ UNCHANGED listVars

Upload(bucket, object, filename, mime_type) ==
    /\ IF files[filename] = Absent
       THEN \* MediaFileUpload cannot open the file: no request is issued
            /\ last' = [op |-> "upload", bucket |-> bucket, object |-> object,
                        filename |-> filename, content |-> Absent,
                        before |-> store[<<bucket, object>>],
                        response |-> Failure(None), outcome |-> Raise("IOError")]
            /\ UNCHANGED <<store, written>>
       ELSE \E answer \in objects_insert(
                              upload_request(bucket, object, filename, mime_type)) :
            /\ store' = answer.store
            /\ written' = IF HttpError(answer.response) THEN written
                          ELSE [written EXCEPT ![<<bucket, object>>] = files[filename]]
            /\ last' = [op |-> "upload", bucket |-> bucket, object |-> object,
                        filename |-> filename, content |-> files[filename],
                        before |-> store[<<bucket, object>>],
                        response |-> answer.response,
                        outcome |-> upload(answer.response)]
    /\ UNCHANGED files
    /\ UNCHANGED listVars

Download(bucket, object, filename) ==
    \E response \in objects_get_media(bucket, object) :
        LET call == download(response, filename)
        IN  /\ files' = call.files
            /\ last' = [op |-> "download", bucket |-> bucket, object |-> object,
                        follows |-> Follows(bucket, object), filename |-> filename, response |-> response,
                        mode |-> call.mode, outcome |-> call.outcome]
            /\ UNCHANGED <<store, written>>
            /\ UNCHANGED listVars

ListIdle ==
    /\ pc = "idle" /\ query = None /\ ids = << >> /\ pageToken = None
    /\ requests = << >> /\ responses = << >> /\ result = None

\* The store is empty and nothing was called; the local files are any.
Init ==
    /\ store = [k \in Keys |-> Absent]
    /\ files \in [Paths -> Contents \cup {Absent}]
    /\ written = [k \in Keys |-> None]
    /\ last = [op |-> "none"]
    /\ ListIdle

Next ==
    \/ \E b \in Buckets, o \in Objects : Exists(b, o)
    \/ \E b \in Buckets, o \in Objects, g \in Generations \cup {None} : Delete(b, o, g)
    \/ \E b \in Buckets, o \in Objects, f \in Paths, m \in MimeTypes : Upload(b, o, f, m)
    \/ \E b \in Buckets, o \in Objects, f \in Paths \cup {NoFile} : Download(b, o, f)

Spec == Init /\ [][Next]_vars

\* The store holds anything; exists and is_updated_after only read it.
InitUpdated ==
    /\ store \in [Keys -> {"c1", Absent}]
    /\ files = [p \in Paths |-> Absent]
    /\ written = [k \in Keys |-> None]
    /\ last = [op |-> "none"]
    /\ ListIdle

NextUpdated ==
    \/ \E b \in Buckets, o \in Objects : Exists(b, o)
    \/ \E b \in Buckets, o \in Objects, ts \in Datetimes : IsUpdatedAfter(b, o, ts)

SpecUpdated == InitUpdated /\ [][NextUpdated]_vars

---------------------------------------------------------------------------
(* list: the remote listing and the pagination loop.                       *)

\* The arguments of a call of list.
Queries ==
    {[bucket |-> "b1", versions |-> None, maxResults |-> None, prefix |-> None],
     [bucket |-> "b2", versions |-> PyTrue, maxResults |-> "1", prefix |-> "p"]}

\* An entry of `items`: an empty dict, a dict without a name, a named object.
Items == {<< >>, [size |-> "1"], [name |-> "a"], [name |-> "b"]}
\* Cursors the service hands out; the empty string is no cursor.
Tokens == {"t1", "t2"}
EmptyToken == ""

RECURSIVE SeqsUpTo(_, _)
\* The sequences over S of length at most n.
SeqsUpTo(S, n) ==
    IF n = 0 THEN {<< >>}
    ELSE LET shorter == SeqsUpTo(S, n - 1)
         IN  shorter \cup {Append(q, x) : q \in {r \in shorter : Len(r) = n - 1}, x \in S}

RECURSIVE ItemCount(_)
\* The entries the pages of `pages` hold together.
ItemCount(pages) ==
    IF pages = << >> THEN 0
    ELSE (IF "items" \in DOMAIN Head(pages).body THEN Len(Head(pages).body.items) ELSE 0)
         + ItemCount(Tail(pages))

\* service.objects().list(bucket, versions, maxResults, pageToken, prefix)
\* .execute(): a page with or without `items` and with or without
\* `nextPageToken`, whose value may be empty.  The service hands out a cursor
\* on at most MaxPages pages and lists at most MaxItems entries.
objects_list(request) ==
    LET room == MaxItems - ItemCount(responses)
        cursors == (IF Len(requests) <= MaxPages THEN Tokens ELSE {}) \cup {EmptyToken}
        withItems == {[items |-> q] : q \in SeqsUpTo(Items, room)}
        bodies == withItems \cup {[items |-> b.items, nextPageToken |-> t] :
                                     b \in withItems, t \in cursors}
                            \cup {[kind |-> "storage#objects"]}
                            \cup {[kind |-> "storage#objects", nextPageToken |-> t] :
                                     t \in cursors}
    IN  Failures \cup {Failure("404")} \cup {[status |-> "200", body |-> b] : b \in bodies}

\* Fault variant of list_request: the prefix is sent with the first page only.
list_request_prefix_once(q, token) ==
    [bucket |-> q.bucket, versions |-> q.versions, maxResults |-> q.maxResults,
     pageToken |-> token, prefix |-> IF token = None THEN q.prefix ELSE None]

\* list: the request of lines 199-205
list_request(q, token) ==
    [bucket |-> q.bucket, versions |-> q.versions, maxResults |-> q.maxResults,
     pageToken |-> token, prefix |-> q.prefix]

RECURSIVE append_names(_, _)
\* list: the loop of lines 211-213
append_names(names, items) ==
    IF items = << >> THEN names
    ELSE LET item == Head(items)
         IN  IF item # << >> /\ "name" \in DOMAIN item
             THEN append_names(Append(names, item.name), Tail(items))
             ELSE append_names(names, Tail(items))

\* Fault variant of list_page: ids is bound anew in every turn.
list_page_fresh_ids(response, names, token) ==
    IF "items" \notin DOMAIN response
    THEN [ids |-> names, pageToken |-> token, break |-> TRUE]
    ELSE LET ids1 == append_names(<< >>, response.items)
         IN  IF "nextPageToken" \notin DOMAIN response
             THEN [ids |-> ids1, pageToken |-> token, break |-> TRUE]
             ELSE [ids |-> ids1, pageToken |-> response.nextPageToken,
                   break |-> response.nextPageToken = EmptyToken]

\* Fault variant of list_page: an empty nextPageToken does not end the loop.
list_page_no_empty_check(response, names, token) ==
    IF "items" \notin DOMAIN response
    THEN [ids |-> names, pageToken |-> token, break |-> TRUE]
    ELSE LET ids1 == append_names(names, response.items)
         IN  IF "nextPageToken" \notin DOMAIN response
             THEN [ids |-> ids1, pageToken |-> token, break |-> TRUE]
             ELSE [ids |-> ids1, pageToken |-> response.nextPageToken,
                   break |-> FALSE]

\* Fault variant of list_page: a response without `items` counts as an empty
\* page and the cursor is followed.
list_page_items_optional(response, names, token) ==
    LET ids1 == IF "items" \in DOMAIN response
                THEN append_names(names, response.items) ELSE names
    IN  IF "nextPageToken" \notin DOMAIN response
        THEN [ids |-> ids1, pageToken |-> token, break |-> TRUE]
        ELSE [ids |-> ids1, pageToken |-> response.nextPageToken,
              break |-> response.nextPageToken = EmptyToken]

\* list: one turn of the loop after the response came, lines 207-222: the
\* new ids and pageToken, and whether the loop is left.
list_page(response, names, token) ==
    IF "items" \notin DOMAIN response
    THEN [ids |-> names, pageToken |-> token, break |-> TRUE]
    ELSE LET ids1 == append_names(names, response.items)
         IN  IF "nextPageToken" \notin DOMAIN response
             THEN [ids |-> ids1, pageToken |-> token, break |-> TRUE]
             ELSE [ids |-> ids1, pageToken |-> response.nextPageToken,
                   break |-> response.nextPageToken = EmptyToken]

\* list is called: lines 194-197
ListCall(q) ==
    /\ pc \in {"idle", "returned", "raised"}
    /\ query' = q
    /\ ids' = << >>
    /\ pageToken' = None
    /\ requests' = << >>
    /\ responses' = << >>
    /\ result' = None
    /\ pc' = "request"
    /\ UNCHANGED storeVars

\* The page request is issued: lines 199-205
ListRequest ==
    /\ pc = "request"
    /\ requests' = Append(requests, list_request(query, pageToken))
    /\ pc' = "execute"
    /\ UNCHANGED <<query, ids, pageToken, responses, result>>
    /\ UNCHANGED storeVars

\* The response comes and the turn of the loop ends: lines 205-223.  A
\* failure is not caught; leaving the loop returns ids.
ListResponse ==
    /\ pc = "execute"
    /\ \E response \in objects_list(requests[Len(requests)]) :
        /\ responses' = Append(responses, response)
        /\ IF HttpError(response)
           THEN /\ pc' = "raised"
                /\ result' = Raise(response.status)
                /\ UNCHANGED <<ids, pageToken>>
           ELSE LET turn == list_page(response.body, ids, pageToken)
                IN  /\ ids' = turn.ids
                    /\ pageToken' = turn.pageToken
                    /\ pc' = IF turn.break THEN "returned" ELSE "request"
                    /\ result' = IF turn.break THEN Return(turn.ids) ELSE None
    /\ UNCHANGED <<query, requests>>
    /\ UNCHANGED storeVars

InitList ==
    /\ store = [k \in Keys |-> Absent]
    /\ files = [p \in Paths |-> Absent]
    /\ written = [k \in Keys |-> None]
    /\ last = [op |-> "none"]
    /\ ListIdle

NextList ==
    \/ \E q \in Queries : ListCall(q)
    \/ ListRequest
    \/ ListResponse

SpecList == InitList /\ [][NextList]_vars

---------------------------------------------------------------------------
(* Properties of exists, is_updated_after, delete, upload and download.    *)

Key(call) == <<call.bucket, call.object>>
Succeeded(response) == response.status \in {"200", "204"}
NotFound(response) == response.status = "404"
OtherFailure(response) == ~Succeeded(response) /\ ~NotFound(response)

\* C1: exists returns false when the object is absent from the store (the
\* metadata GET fails with 404) and true when it is present (the GET
\* succeeds); it never returns true for an absent object nor false for a
\* present one.
C1_ExistsTellsPresence ==
    last.op = "exists" =>
        LET present == store[Key(last)] # Absent
        IN  /\ NotFound(last.response) => ~present /\ last.outcome = Return(PyFalse)
            /\ Succeeded(last.response) => present /\ last.outcome = Return(PyTrue)
            /\ last.outcome = Return(PyTrue) => present
            /\ last.outcome = Return(PyFalse) => ~present

\* exists has answered for a present and for an absent object of one store.
C1_Witness ==
    /\ last.op = "exists"
    /\ last.outcome = Return(PyFalse)
    /\ store[Key(last)] = Absent
    /\ \E k \in Keys : store[k] # Absent

\* C2: for every failure of the metadata GET whose status is not 404, exists
\* and is_updated_after raise that failure; neither returns a boolean.
C2_OtherFailuresRaise ==
    (last.op \in {"exists", "is_updated_after"} /\ OtherFailure(last.response)) =>
        /\ last.outcome = Raise(last.response.status)
        /\ last.outcome.kind # "return"

\* is_updated_after has raised the 500 of its metadata GET on a present object.
C2_Witness ==
    /\ last.op = "is_updated_after"
    /\ last.response.status = "500"
    /\ last.outcome = Raise("500")
    /\ store[Key(last)] # Absent

\* C3, as stated: delete on a missing object (the delete call fails with
\* 404) returns true; delete on an existing object returns true, and an
\* exists call on the same object issued afterwards returns false.
C3_Original ==
    /\ (last.op = "delete" /\ NotFound(last.response)) => last.outcome = Return(PyTrue)
    /\ (last.op = "delete" /\ Succeeded(last.response)) => last.outcome = Return(PyTrue)
    /\ (last.op = "exists" /\ last.outcome.kind = "return"
           /\ (last.follows = "delete" \/ written[Key(last)] = None)) =>
           last.outcome = Return(PyFalse)

\* C3, amended: delete on a missing object (the delete call fails with 404)
\* returns false; a delete call that succeeds returns true, and once it has
\* removed the live object, an exists call on the same object issued
\* afterwards, before any upload of it, returns false whenever it returns.
C3_DeleteThenExists ==
    /\ (last.op = "delete" /\ NotFound(last.response)) => last.outcome = Return(PyFalse)
    /\ (last.op = "delete" /\ Succeeded(last.response)) => last.outcome = Return(PyTrue)
    /\ (last.op = "delete" /\ last.live) =>
           /\ last.existed
           /\ store[Key(last)] = Absent
           /\ written[Key(last)] = None
           /\ last.outcome = Return(PyTrue)
    /\ (last.op = "exists" /\ last.outcome.kind = "return"
           /\ (last.follows = "delete" \/ written[Key(last)] = None)) =>
           last.outcome = Return(PyFalse)

\* exists has returned false right after a delete removed the live object.
C3_Witness ==
    /\ last.op = "exists"
    /\ last.follows = "delete"
    /\ last.outcome = Return(PyFalse)

\* C4: delete has exactly three outcomes, decided by the remote delete call:
\* true when the call succeeds, false when it fails with 404, and the raised
\* failure for every other status; never a boolean for a non-404 failure.
C4_DeleteOutcomes ==
    last.op = "delete" =>
        /\ Succeeded(last.response) => last.outcome = Return(PyTrue)
        /\ NotFound(last.response) => last.outcome = Return(PyFalse)
        /\ OtherFailure(last.response) => last.outcome = Raise(last.response.status)
        /\ last.outcome \in {Return(PyTrue), Return(PyFalse)} \cup
                            {Raise(s) : s \in ErrorStatuses}

\* delete of one generation of an existing object has raised a 403.
C4_Witness ==
    /\ last.op = "delete"
    /\ last.generation # None
    /\ last.existed
    /\ last.response.status = "403"
    /\ last.outcome = Raise("403")

\* The instant of the text of an `updated` field.
UpdatedInstant(text) == text.hh - text.zz
\* The instant of a threshold, taken as UTC when it carries no timezone.
ThresholdInstant(ts) == ts.wall - (IF "tzinfo" \in DOMAIN ts THEN ts.tzinfo ELSE 0)

\* C5: when the metadata GET succeeds, is_updated_after returns true iff the
\* response has an `updated` field whose instant is strictly greater than
\* the threshold (UTC when naive), and false otherwise: for equal instants,
\* for an earlier `updated`, without the field; and false for a 404.
C5_StrictlyAfter ==
    last.op = "is_updated_after" =>
        /\ Succeeded(last.response) =>
              /\ last.outcome \in {Return(PyTrue), Return(PyFalse)}
              /\ last.outcome = Return(PyTrue) <=>
                     /\ "updated" \in DOMAIN last.response.body
                     /\ UpdatedInstant(last.response.body.updated) > ThresholdInstant(last.ts)
        /\ NotFound(last.response) => last.outcome = Return(PyFalse)

\* A naive threshold and an `updated` of the same instant but another wall
\* clock: the answer is false.
C5_Witness ==
    /\ last.op = "is_updated_after"
    /\ Succeeded(last.response)
    /\ "updated" \in DOMAIN last.response.body
    /\ "tzinfo" \notin DOMAIN last.ts
    /\ UpdatedInstant(last.response.body.updated) = ThresholdInstant(last.ts)
    /\ last.response.body.updated.hh # last.ts.wall
    /\ last.outcome = Return(PyFalse)

\* C9: after upload has written content C to (bucket, object) and succeeded,
\* a following download of it, with no upload or delete of that object in
\* between, returns C; also when the upload replaced other content.
C9_RoundTrip ==
    /\ (last.op = "upload" /\ Succeeded(last.response)) =>
           /\ store[Key(last)] = last.content
           /\ written[Key(last)] = last.content
    /\ (last.op = "download" /\ last.outcome.kind = "return" /\ written[Key(last)] # None) =>
           last.outcome = Return(written[Key(last)])
    /\ (last.op = "download" /\ last.follows \in {"upload", "overwrite"}) =>
           written[Key(last)] # None

\* download has returned right after an upload that replaced other content.
C9_Witness ==
    /\ last.op = "download"
    /\ last.follows = "overwrite"
    /\ last.filename # NoFile
    /\ last.outcome = Return(written[Key(last)])

---------------------------------------------------------------------------
(* Properties of list.                                                     *)

PageCount == Len(responses)
HasItems(response) == Succeeded(response) /\ "items" \in DOMAIN response.body
HasToken(response) == Succeeded(response) /\ "nextPageToken" \in DOMAIN response.body
HasCursor(response) == HasToken(response) /\ response.body.nextPageToken # EmptyToken
HasName(item) == "name" \in DOMAIN item

\* The names of the entries of one page that have one, in the page's order.
NamesOf(items) ==
    LET named == SelectSeq(items, HasName)
    IN  [i \in 1 .. Len(named) |-> named[i].name]

RECURSIVE NamesOfPages(_)
\* The names of the pages one after the other; a page without `items` has none.
NamesOfPages(pages) ==
    IF pages = << >> THEN << >>
    ELSE (IF HasItems(Head(pages)) THEN NamesOf(Head(pages).body.items) ELSE << >>)
         \o NamesOfPages(Tail(pages))

\* The listing was served as pages that all carry items, all but the last
\* with a non-empty nextPageToken and the last without the field.
ServedInPages ==
    /\ PageCount >= 1
    /\ \A i \in 1 .. PageCount - 1 : HasItems(responses[i]) /\ HasCursor(responses[i])
    /\ HasItems(responses[PageCount])
    /\ ~HasToken(responses[PageCount])

\* C6: for a listing served as N pages, the first N-1 with items and a
\* non-empty nextPageToken and the last with items and no nextPageToken, list
\* returns the names of all items that have one, in page order and in the
\* order within each page, and issues exactly N page requests.
C6_ConcatenatesPages ==
    ServedInPages =>
        /\ pc = "returned"
        /\ result = Return(NamesOfPages(responses))
        /\ Len(requests) = PageCount

\* Three pages with two names and an entry without a name among them.
C6_Witness ==
    /\ ServedInPages
    /\ PageCount = 3
    /\ pc = "returned"
    /\ Len(result.value) = 2
    /\ result.value[1] # result.value[2]
    /\ ItemCount(responses) = 3
    /\ \A i \in 1 .. 2 : responses[i].body.items # << >>

\* C7: a page whose nextPageToken is present but empty ends list: no further
\* request is issued, and no page request ever carries an empty token; list
\* ends with the first page whose token is absent or empty.
C7_EmptyTokenEnds ==
    /\ \A i \in 1 .. Len(requests) : requests[i].pageToken # EmptyToken
    /\ \A i \in 1 .. PageCount :
           (Succeeded(responses[i]) /\ ~HasCursor(responses[i])) =>
               /\ i = PageCount
               /\ Len(requests) = i
               /\ pc = "returned"

\* The third page came with items and an empty nextPageToken.
C7_Witness ==
    /\ PageCount = 3
    /\ HasItems(responses[3])
    /\ HasToken(responses[3])
    /\ responses[3].body.nextPageToken = EmptyToken
    /\ pc = "returned"
    /\ Len(requests) = 3

\* C8: a page without `items` ends list: no further request is issued and
\* the names of the earlier pages are returned, also when that page carries
\* a non-empty nextPageToken; when it is the first page, the empty sequence
\* is returned after one request.  list returns, it does not raise.
C8_NoItemsEnds ==
    \A i \in 1 .. PageCount :
        (Succeeded(responses[i]) /\ ~HasItems(responses[i])) =>
            /\ i = PageCount
            /\ Len(requests) = i
            /\ pc = "returned"
            /\ result = Return(NamesOfPages(SubSeq(responses, 1, i - 1)))
            /\ (i = 1 => result = Return(<< >>))

\* The second page came without `items` and with a cursor, after a page of names.
C8_Witness ==
    /\ PageCount = 2
    /\ ~HasItems(responses[2])
    /\ HasCursor(responses[2])
    /\ pc = "returned"
    /\ result.value # << >>

\* C10: the first page request carries no cursor; every later one carries
\* the non-empty nextPageToken of the response just before it; a request is
\* issued only after the response to the one before it came; bucket, prefix,
\* versions and page size are the same on every request of a call.
C10_CursorFollowed ==
    /\ Len(requests) >= 1 => requests[1].pageToken = None
    /\ \A i \in 2 .. Len(requests) :
           /\ HasCursor(responses[i - 1])
           /\ requests[i].pageToken = responses[i - 1].body.nextPageToken
    /\ Len(requests) \in {PageCount, PageCount + 1}
    /\ Len(requests) = PageCount + 1 <=> pc = "execute"
    /\ \A i \in 1 .. Len(requests) :
           /\ requests[i].bucket = query.bucket
           /\ requests[i].prefix = query.prefix
           /\ requests[i].versions = query.versions
           /\ requests[i].maxResults = query.maxResults

\* A third request under a prefix, with a cursor other than the second's.
C10_Witness ==
    /\ Len(requests) = 3
    /\ requests[3].pageToken # requests[2].pageToken
    /\ requests[3].pageToken = responses[2].body.nextPageToken
    /\ requests[3].prefix = "p"

====
